---- MODULE Spec2Model ----
(***************************************************************************)
(* The OBD-II report pipeline of app.py: POST /generate (upload, read,     *)
(* summarize, prompt, report, four charts, summary table, page) and        *)
(* POST /download (HTML to PDF).                                           *)
(*                                                                         *)
(* Numbers.  A CSV cell is a decimal with at most three fractional digits  *)
(* and is kept as an integer count of thousandths (80.005 is 80005).  A    *)
(* Python value is a record [t, v]: t = "int" with v in units, t = "float" *)
(* with v in thousandths, t = "nan".                                       *)
(*                                                                         *)
(* Text.  A header is a sequence of chunks; a chunk is one whitespace      *)
(* character, one non-ASCII character, or a run of ASCII text that neither *)
(* starts nor ends with whitespace.  Number texts and the report text are  *)
(* sequences of one-character strings.                                     *)
(***************************************************************************)
EXTENDS Integers, Sequences, FiniteSets, TLC

VARIABLES
    request,        \* [r -> the HTTP request: route, form fields, upload]
    pc,             \* [r -> the handler's position]
    files,          \* the upload directory: path -> file content
    file_path,      \* generate: file_path
    df,             \* generate: df
    summary,        \* generate: summary
    question,       \* generate: question
    report,         \* generate: report
    graphs,         \* generate: graphs
    summary_table,  \* generate: summary_table
    pdf_buffer,     \* create_pdf: pdf_buffer
    pisa_status,    \* create_pdf: pisa_status
    pdf,            \* download: pdf
    response,       \* [r -> the response sent, None before]
    error,          \* [r -> the exception that ended the handler, "none"]
    trace,          \* [r -> the steps the handler has run, in order]
    llm_calls,      \* the prompts the text-generation service has received
    service         \* what the text-generation service answers

vars == <<request, pc, files, file_path, df, summary, question, report, graphs,
          summary_table, pdf_buffer, pisa_status, pdf, response, error, trace,
          llm_calls, service>>

----------------------------------------------------------------------------
(* Bounds *)

NReq == 2          \* concurrent requests
MaxRows == 2       \* rows of an uploaded table
NKinds == 3        \* distinct rows an upload draws from
MaxErr == 1        \* largest error count the PDF renderer reports
MaxReply == 2      \* length of the text the generation service returns

Req == 1..NReq
None == [t |-> "None"]

----------------------------------------------------------------------------
(* Column names *)

Time == "Time"
Coolant == "Engine Coolant Temperature [C]"
Rpm == "Engine RPM [RPM]"
Speed == "Vehicle Speed Sensor [km/h]"
Maf == "Air Flow Rate from Mass Flow Sensor [g/s]"
Throttle == "Absolute Throttle Position [%]"
Ambient == "Ambient Air Temperature [C]"
Intake == "Intake Air Temperature [C]"
PedalD == "Accelerator Pedal Position D [%]"
PedalE == "Accelerator Pedal Position E [%]"

\* The columns summarize_data reads, in the order its dict literal reads them.
SummaryColumns ==
    <<Coolant, Rpm, Rpm, Speed, Maf, Throttle, Ambient, Intake, PedalD, PedalE>>

\* The columns of a complete upload, in file order.
FileColumns ==
    <<Time, Coolant, Rpm, Speed, Maf, Throttle, Ambient, Intake, PedalD, PedalE>>

Range(s) == {s[i] : i \in DOMAIN s}

----------------------------------------------------------------------------
(* Headers and their normalization *)

BOM == "U+FEFF"
DEG == "U+00B0"
NonAscii == {BOM, DEG}
Whitespace == {" ", "\t"}

RECURSIVE Join(_)
Join(chunks) ==
    IF chunks = <<>> THEN "" ELSE Head(chunks) \o Join(Tail(chunks))

\* str.encode('ascii', 'ignore').decode('ascii'): every non-ASCII character
\* is dropped.
RECURSIVE AsciiIgnore(_)
AsciiIgnore(h) ==
    IF h = <<>> THEN <<>>
    ELSE IF Head(h) \in NonAscii THEN AsciiIgnore(Tail(h))
    ELSE <<Head(h)>> \o AsciiIgnore(Tail(h))

RECURSIVE LStrip(_)
LStrip(h) ==
    IF h # <<>> /\ Head(h) \in Whitespace THEN LStrip(Tail(h)) ELSE h

RECURSIVE RStrip(_)
RStrip(h) ==
    IF h # <<>> /\ h[Len(h)] \in Whitespace
    THEN RStrip(SubSeq(h, 1, Len(h) - 1)) ELSE h

\* str.strip()
Strip(h) == RStrip(LStrip(h))

\* Faulty variant: the two calls in the other order.
NormalizeHeader_StripFirst(h) == AsciiIgnore(Strip(h))

\* df.columns.str.encode('ascii', 'ignore').str.decode('ascii').str.strip()
NormalizeHeader(h) == Strip(AsciiIgnore(h))

NormalizeColumns(cols) == [i \in DOMAIN cols |-> NormalizeHeader(cols[i])]

----------------------------------------------------------------------------
(* Uploaded CSV files *)

NaN == [t |-> "nan", v |-> 0]
PyInt(n) == [t |-> "int", v |-> n]
PyFloat(m) == [t |-> "float", v |-> m]

\* A blank CSV field; pandas reads it as NaN.
Blank == 0 - 1000000000

Index(s, x) == CHOOSE i \in DOMAIN s : s[i] = x

Base(col) == Index(FileColumns, col) * 10000

\* The fractional patterns a row draws from, in thousandths: a whole number,
\* a value halfway between two hundredths, one that rounds up, and more.
Off(kind) ==
    CASE kind = 1 -> 0
      [] kind = 2 -> 5
      [] kind = 3 -> 2757
      [] OTHER -> kind * 1111

\* Ambient temperatures are below zero.
Cell(col, kind, j) ==
    IF kind = 0 THEN Blank
    ELSE IF col = Time THEN j * 1000
    ELSE IF col = Ambient THEN 0 - (Base(col) + Off(kind))
    ELSE Base(col) + Off(kind)

HeaderStyles == {"plain", "degree", "padded"}

\* How a logger may write the header of column col.
RawHeader(style, col) ==
    CASE style = "plain" -> <<col>>
      [] style = "degree" ->
            IF col = Time THEN <<BOM, col>>
            ELSE IF col = Coolant THEN <<"Engine Coolant Temperature [", DEG, "C]">>
            ELSE IF col = Ambient THEN <<"Ambient Air Temperature [", DEG, "C]">>
            ELSE IF col = Intake THEN <<"Intake Air Temperature [", DEG, "C]">>
            ELSE <<col>>
      [] style = "padded" ->
            IF col = Time THEN <<BOM, " ", col>> ELSE <<" ", col, "\t">>

RECURSIVE Without(_, _)
Without(s, x) ==
    IF s = <<>> THEN <<>>
    ELSE IF Head(s) = x THEN Without(Tail(s), x)
    ELSE <<Head(s)>> \o Without(Tail(s), x)

\* A file is its header line and its data lines; a file of no lines has
\* header <<>>.  int_text: whole numbers are written without a decimal point.
NoLines == [header |-> <<>>, rows |-> <<>>, int_text |-> FALSE]

Content(style, missing, kinds, int_text) ==
    LET cols == Without(FileColumns, missing) IN
    [header |-> [i \in DOMAIN cols |-> RawHeader(style, cols[i])],
     rows |-> [j \in DOMAIN kinds |->
                  [i \in DOMAIN cols |-> Cell(cols[i], kinds[j], j)]],
     int_text |-> int_text]

SeqsUpTo(S, n) == UNION {[1..k -> S] : k \in 0..n}

----------------------------------------------------------------------------
(* pandas *)

\* pd.read_csv: "error" names the exception raised, if any.  A data line
\* with more fields than the header is a ParserError; one with fewer is
\* padded with NaN.
Pad(row, n) == [i \in 1..n |-> IF i <= Len(row) THEN row[i] ELSE Blank]

read_csv(content) ==
    IF content.header = <<>> THEN [error |-> "EmptyDataError", df |-> None]
    ELSE IF \E j \in DOMAIN content.rows :
                Len(content.rows[j]) > Len(content.header)
    THEN [error |-> "ParserError", df |-> None]
    ELSE [error |-> "none",
          df |-> [columns |-> content.header,
                  rows |-> [j \in DOMAIN content.rows |->
                               Pad(content.rows[j], Len(content.header))],
                  int_text |-> content.int_text]]

\* df[name]: the lookup succeeds iff a column label equals name.
HasColumn(d, name) == \E i \in DOMAIN d.columns : Join(d.columns[i]) = name

ColumnIndex(d, name) == CHOOSE i \in DOMAIN d.columns : Join(d.columns[i]) = name

\* The cells of df[name], NaN cells included.
Series(d, name) == [j \in DOMAIN d.rows |-> d.rows[j][ColumnIndex(d, name)]]

\* The cells an aggregate sees: skipna drops the NaN cells.
Valid(s) == {j \in DOMAIN s : s[j] # Blank}

\* A column is int64 when every cell is a whole number written without a
\* decimal point; otherwise it is float64.
IsIntColumn(d, name) ==
    /\ d.int_text
    /\ \A j \in DOMAIN Series(d, name) :
          Series(d, name)[j] # Blank /\ Series(d, name)[j] % 1000 = 0

RECURSIVE SumOver(_, _)
SumOver(s, J) ==
    IF J = {} THEN 0
    ELSE LET j == CHOOSE k \in J : TRUE IN s[j] + SumOver(s, J \ {j})

\* Series.max() and Series.min() in thousandths; NaN when no cell is valid.
SeriesMax(s) == CHOOSE m \in {s[j] : j \in Valid(s)} : \A j \in Valid(s) : s[j] <= m
SeriesMin(s) == CHOOSE m \in {s[j] : j \in Valid(s)} : \A j \in Valid(s) : m <= s[j]

----------------------------------------------------------------------------
(* summarize_data *)

Abs(x) == IF x < 0 THEN 0 - x ELSE x

\* Faulty variant: the digits beyond the second are cut off rather than rounded.
Round2Set_Truncating(num, den) == {10 * (num \div (10 * den))}

\* round(num/den, 2) of a float, in thousandths: the nearest hundredth.  A
\* value exactly halfway between two hundredths goes to either one: which,
\* the binary float nearest the decimal decides.
Round2Set(num, den) ==
    LET lo == 10 * (num \div (10 * den))
        hi == lo + 10
    IN  IF 2 * (num - lo * den) < 10 * den THEN {lo}
        ELSE IF 2 * (num - lo * den) > 10 * den THEN {hi}
        ELSE {lo, hi}

\* int(num/den) of thousandths num/den: truncation toward zero, in units.
IntCast(num, den) ==
    IF num >= 0 THEN num \div (1000 * den)
    ELSE 0 - ((0 - num) \div (1000 * den))

\* round(Series.mean(), 2)
RoundedMean(s) ==
    IF Valid(s) = {} THEN {NaN}
    ELSE {PyFloat(m) : m \in Round2Set(SumOver(s, Valid(s)), Cardinality(Valid(s)))}

\* int(Series.mean())
IntMean(s) == PyInt(IntCast(SumOver(s, Valid(s)), Cardinality(Valid(s))))

\* The scalar max() or min() hands back: numpy int64 or float64.
Scalar(isInt, v) == IF isInt THEN PyInt(v \div 1000) ELSE PyFloat(v)

\* round(x, 2) of a scalar: an int64 stays as it is.
RoundedScalar(isInt, v) ==
    IF isInt THEN {PyInt(v \div 1000)}
    ELSE {PyFloat(m) : m \in Round2Set(v, 1)}

RoundedMax(d, name) ==
    IF Valid(Series(d, name)) = {} THEN {NaN}
    ELSE RoundedScalar(IsIntColumn(d, name), SeriesMax(Series(d, name)))

RoundedMin(d, name) ==
    IF Valid(Series(d, name)) = {} THEN {NaN}
    ELSE RoundedScalar(IsIntColumn(d, name), SeriesMin(Series(d, name)))

\* (Series.min(), Series.max())
MinMax(d, name) ==
    IF Valid(Series(d, name)) = {} THEN <<NaN, NaN>>
    ELSE <<Scalar(IsIntColumn(d, name), SeriesMin(Series(d, name))),
           Scalar(IsIntColumn(d, name), SeriesMax(Series(d, name)))>>

\* The entries of the dict literal that pass their value through int().
IntEntries == {2, 3, 4}

\* What evaluating entry i of the dict literal raises: a missing column is a
\* KeyError; int() of NaN is a ValueError.
EntryError(d, i) ==
    IF ~HasColumn(d, SummaryColumns[i]) THEN "KeyError"
    ELSE IF i \in IntEntries /\ Valid(Series(d, SummaryColumns[i])) = {}
    THEN "ValueError"
    ELSE "none"

\* The entries are evaluated in order; the first one to raise ends the call.
FirstError(d) ==
    IF \A i \in DOMAIN SummaryColumns : EntryError(d, i) = "none" THEN "none"
    ELSE EntryError(d, CHOOSE i \in DOMAIN SummaryColumns :
                          /\ EntryError(d, i) # "none"
                          /\ \A k \in 1..(i - 1) : EntryError(d, k) = "none")

\* The summaries summarize_data can return for the (normalized) table d.
Summaries(d) ==
    {[engine_temp_avg |-> a, rpm_max |-> b, rpm_avg |-> c, speed_max |-> e,
      maf_avg |-> f, throttle_max |-> g, ambient_min |-> h,
      intake_temp_avg |-> k,
      pedal_d_range |-> MinMax(d, PedalD),
      pedal_e_range |-> MinMax(d, PedalE)] :
        a \in RoundedMean(Series(d, Coolant)),
        b \in {PyInt(IntCast(SeriesMax(Series(d, Rpm)), 1))},
        c \in {IntMean(Series(d, Rpm))},
        e \in {PyInt(IntCast(SeriesMax(Series(d, Speed)), 1))},
        f \in RoundedMean(Series(d, Maf)),
        g \in RoundedMax(d, Throttle),
        h \in RoundedMin(d, Ambient),
        k \in RoundedMean(Series(d, Intake))}

DefaultSummary ==
    [engine_temp_avg |-> PyFloat(0), rpm_max |-> PyInt(0), rpm_avg |-> PyInt(0),
     speed_max |-> PyInt(0), maf_avg |-> PyFloat(0), throttle_max |-> PyFloat(0),
     ambient_min |-> PyFloat(0), intake_temp_avg |-> PyFloat(0),
     pedal_d_range |-> <<PyFloat(0), PyFloat(0)>>,
     pedal_e_range |-> <<PyFloat(0), PyFloat(0)>>]

\* Faulty variant: a table that cannot be summarized gets a summary of zeros.
summarize_data_Defaults(d) ==
    LET n == [d EXCEPT !.columns = NormalizeColumns(d.columns)] IN
    IF FirstError(n) # "none"
    THEN {[df |-> n, error |-> "none", summary |-> DefaultSummary]}
    ELSE {[df |-> n, error |-> "none", summary |-> s] : s \in Summaries(n)}

\* summarize_data(df): the table with its columns normalized in place, and
\* either the exception raised or a summary.
summarize_data(d) ==
    LET n == [d EXCEPT !.columns = NormalizeColumns(d.columns)] IN
    IF FirstError(n) # "none"
    THEN {[df |-> n, error |-> FirstError(n), summary |-> None]}
    ELSE {[df |-> n, error |-> "none", summary |-> s] : s \in Summaries(n)}

----------------------------------------------------------------------------
(* Formatting: str() of a number, as an f-string or str.format writes it *)

Digit(n) == SubSeq(<<"0", "1", "2", "3", "4", "5", "6", "7", "8", "9">>, n + 1, n + 1)

RECURSIVE Digits(_)
Digits(n) == IF n < 10 THEN Digit(n) ELSE Digits(n \div 10) \o Digit(n % 10)

\* The fractional digits of m thousandths: trailing zeros dropped, one kept.
Fraction(m) ==
    IF m % 1000 = 0 THEN <<"0">>
    ELSE IF m % 100 = 0 THEN Digit(m \div 100)
    ELSE IF m % 10 = 0 THEN Digit(m \div 100) \o Digit((m \div 10) % 10)
    ELSE Digit(m \div 100) \o Digit((m \div 10) % 10) \o Digit(m % 10)

Sign(x) == IF x < 0 THEN <<"-">> ELSE <<>>

Str(x) ==
    CASE x.t = "nan" -> <<"n", "a", "n">>
      [] x.t = "int" -> Sign(x.v) \o Digits(Abs(x.v))
      [] x.t = "float" ->
            Sign(x.v) \o Digits(Abs(x.v) \div 1000) \o <<".">>
                \o Fraction(Abs(x.v) % 1000)

----------------------------------------------------------------------------
(* build_question *)

Instructions ==
    <<"Based on the summarized OBD-II vehicle data over time, provide a detailed diagnostic report:",
      "1. Assess overall vehicle health.",
      "2. Identify anomalies or issues.",
      "3. Suggest maintenance tips.">>

Line(label, values, unit) == [label |-> label, values |-> values, unit |-> unit]

\* The f-string: the instructions, then one line per metric.
build_question(s) ==
    [instructions |-> Instructions,
     data |->
       <<Line("- Avg Engine Coolant Temp: ", <<Str(s.engine_temp_avg)>>, " [deg]C"),
         Line("- Max Engine RPM: ", <<Str(s.rpm_max)>>, " RPM"),
         Line("- Avg Engine RPM: ", <<Str(s.rpm_avg)>>, " RPM"),
         Line("- Max Speed: ", <<Str(s.speed_max)>>, " km/h"),
         Line("- Avg Air Flow (MAF): ", <<Str(s.maf_avg)>>, " g/s"),
         Line("- Max Throttle: ", <<Str(s.throttle_max)>>, " %"),
         Line("- Min Ambient Temp: ", <<Str(s.ambient_min)>>, " [deg]C"),
         Line("- Avg Intake Air Temp: ", <<Str(s.intake_temp_avg)>>, " [deg]C"),
         Line("- Pedal D: ",
              <<Str(s.pedal_d_range[1]), Str(s.pedal_d_range[2])>>, "%"),
         Line("- Pedal E: ",
              <<Str(s.pedal_e_range[1]), Str(s.pedal_e_range[2])>>, "%")>>]

----------------------------------------------------------------------------
(* generate_report, generate_summary_table *)

\* markupsafe.Markup(s): s marked safe, its characters unchanged.
Markup(html) == [safe |-> TRUE, html |-> html]

PanelOpen ==
    <<"<div style='border:2px solid #007BFF; padding:20px; background-color:#F8F9FA; border-radius:10px;'>",
      "<h3 style='color:#007BFF;'>Vehicle Diagnostic Report</h3>",
      "<p style='white-space:pre-wrap;'>">>

PanelClose == <<"</p>", "</div>">>

\* The f-string around raw_report, wrapped in Markup.
FormatReport(raw_report) == Markup(PanelOpen \o raw_report \o PanelClose)

\* The ten rows of the table: str.format(**summary).
generate_summary_table(s) ==
    [safe |-> TRUE,
     rows |->
       <<Line("Avg Engine Coolant Temp", <<Str(s.engine_temp_avg)>>, " [deg]C"),
         Line("Max Engine RPM", <<Str(s.rpm_max)>>, " RPM"),
         Line("Avg Engine RPM", <<Str(s.rpm_avg)>>, " RPM"),
         Line("Max Speed", <<Str(s.speed_max)>>, " km/h"),
         Line("Avg Air Flow (MAF)", <<Str(s.maf_avg)>>, " g/s"),
         Line("Max Throttle Position", <<Str(s.throttle_max)>>, " %"),
         Line("Min Ambient Temp", <<Str(s.ambient_min)>>, " [deg]C"),
         Line("Avg Intake Air Temp", <<Str(s.intake_temp_avg)>>, " [deg]C"),
         Line("Pedal D Range",
              <<Str(s.pedal_d_range[1]), Str(s.pedal_d_range[2])>>, "%"),
         Line("Pedal E Range",
              <<Str(s.pedal_e_range[1]), Str(s.pedal_e_range[2])>>, "%")>>]

----------------------------------------------------------------------------
(* create_graph *)

\* The figure and its explanation; "error" names the exception a column
\* lookup raises.
create_graph(d, x_col, y_col, title, explanation) ==
    IF ~HasColumn(d, x_col) \/ ~HasColumn(d, y_col)
    THEN [error |-> "KeyError", graph |-> None]
    ELSE [error |-> "none",
          graph |-> [x |-> Series(d, x_col), y |-> Series(d, y_col),
                     mode |-> "lines", name |-> y_col, title |-> title,
                     xaxis_title |-> "Timestamp", yaxis_title |-> y_col,
                     explanation |-> explanation]]

\* Faulty variant: the RPM chart is drawn from the speed column.
GraphCalls_Swapped ==
    <<[x_col |-> Time, y_col |-> Coolant,
       title |-> "Engine Coolant Temperature Over Time",
       explanation |-> "Monitors engine warming."],
      [x_col |-> Time, y_col |-> Speed,
       title |-> "Engine RPM Over Time",
       explanation |-> "Shows engine revolutions per minute during operation."],
      [x_col |-> Time, y_col |-> Speed,
       title |-> "Vehicle Speed Over Time",
       explanation |-> "Helps assess speed behavior."],
      [x_col |-> Time, y_col |-> PedalD,
       title |-> "Pedal D Position Over Time",
       explanation |-> "Reflects throttle input from driver."]>>

\* The four create_graph calls of generate, in order.
GraphCalls ==
    <<[x_col |-> Time, y_col |-> Coolant,
       title |-> "Engine Coolant Temperature Over Time",
       explanation |-> "Monitors engine warming."],
      [x_col |-> Time, y_col |-> Rpm,
       title |-> "Engine RPM Over Time",
       explanation |-> "Shows engine revolutions per minute during operation."],
      [x_col |-> Time, y_col |-> Speed,
       title |-> "Vehicle Speed Over Time",
       explanation |-> "Helps assess speed behavior."],
      [x_col |-> Time, y_col |-> PedalD,
       title |-> "Pedal D Position Over Time",
       explanation |-> "Reflects throttle input from driver."]>>

----------------------------------------------------------------------------
(* Page rendering *)

EscapeChar(c) ==
    CASE c = "&" -> "&amp;"
      [] c = "<" -> "&lt;"
      [] c = ">" -> "&gt;"
      [] OTHER -> c

\* markupsafe.escape
Escape(text) == [i \in DOMAIN text |-> EscapeChar(text[i])]

\* What the template engine writes for {{ value }}: a value marked safe is
\* written as it is, any other is escaped.
Emit(value) == IF value.safe THEN value.html ELSE Escape(value.html)

\* result.html with report, graphs and summary_table filled in.
render_result(rep, gs, table) ==
    [status |-> 200, kind |-> "page", report |-> Emit(rep), graphs |-> gs,
     summary_table |-> table.rows]

Plain(status, text) == [status |-> status, kind |-> "text", body |-> text]

\* What the framework answers when a handler raises.
ServerError == [status |-> 500, kind |-> "error", body |-> "Internal Server Error"]

\* What the framework answers when a form field or file is absent.
BadRequest == [status |-> 400, kind |-> "error", body |-> "Bad Request"]

----------------------------------------------------------------------------
(* The upload directory *)

\* app.config['UPLOAD_FOLDER'] = tempfile.gettempdir()
UPLOAD_FOLDER == "/tmp"

\* os.path.join(folder, filename), for a filename that is a bare name.
PathJoin(folder, filename) == folder \o "/" \o filename

EmptyDir == [p \in {} |-> NoLines]

\* file_path before it is assigned.
NoPath == ""

Store(dir, path, content) ==
    [p \in DOMAIN dir \cup {path} |-> IF p = path THEN content ELSE dir[p]]

\* One write of new at offset 0 over old: new's lines replace old's first
\* lines, and what old holds beyond them stays.  Lines are taken to be of one
\* length, and an upload to fit one write.
Overlay(old, new) ==
    IF new.header = <<>> THEN old
    ELSE [header |-> new.header,
          rows |-> new.rows \o SubSeq(old.rows, Len(new.rows) + 1, Len(old.rows)),
          int_text |-> new.int_text]

----------------------------------------------------------------------------
(* POST /generate *)

\* The calls request r has made to the service.
CallsTo(r) == Cardinality({i \in DOMAIN llm_calls : llm_calls[i].r = r})

\* A handler that raises: the framework answers 500 and the handler is over.
Raise(r, exc) ==
    /\ pc' = [pc EXCEPT ![r] = "done"]
    /\ error' = [error EXCEPT ![r] = exc]
    /\ response' = [response EXCEPT ![r] = ServerError]

Goto(r, next) ==
    /\ pc' = [pc EXCEPT ![r] = next]
    /\ UNCHANGED <<error, response>>

Ran(r, step) == trace' = [trace EXCEPT ![r] = Append(@, step)]

\* Faulty variant: the test of the file is left out.
GetFile_NoCheck(r) ==
    /\ pc[r] = "start" /\ request[r].route = "generate"
    /\ IF ~request[r].attached
       THEN /\ pc' = [pc EXCEPT ![r] = "done"]
            /\ error' = [error EXCEPT ![r] = "BadRequestKeyError"]
            /\ response' = [response EXCEPT ![r] = BadRequest]
       ELSE Goto(r, "save")
    /\ UNCHANGED <<request, files, file_path, df, summary, question, report,
                   graphs, summary_table, pdf_buffer, pisa_status, pdf, trace,
                   llm_calls, service>>

\* file = request.files['datafile']; if not file: return "No file uploaded", 400
\* A FileStorage is false when its filename is empty.
GetFile(r) ==
    /\ pc[r] = "start" /\ request[r].route = "generate"
    /\ IF ~request[r].attached
       THEN /\ pc' = [pc EXCEPT ![r] = "done"]
            /\ error' = [error EXCEPT ![r] = "BadRequestKeyError"]
            /\ response' = [response EXCEPT ![r] = BadRequest]
       ELSE IF request[r].filename = ""
       THEN /\ pc' = [pc EXCEPT ![r] = "done"]
            /\ response' = [response EXCEPT ![r] = Plain(400, "No file uploaded")]
            /\ UNCHANGED error
       ELSE Goto(r, "save")
    /\ UNCHANGED <<request, files, file_path, df, summary, question, report,
                   graphs, summary_table, pdf_buffer, pisa_status, pdf, trace,
                   llm_calls, service>>

\* Faulty variant: the path is keyed by the request, not by the filename alone.
SaveOpen_PerRequest(r) ==
    /\ pc[r] = "save"
    /\ file_path' = [file_path EXCEPT
                       ![r] = PathJoin(UPLOAD_FOLDER,
                                       ToString(r) \o "-" \o request[r].filename)]
    /\ files' = Store(files, file_path'[r], NoLines)
    /\ Ran(r, "save")
    /\ Goto(r, "write")
    /\ UNCHANGED <<request, df, summary, question, report, graphs,
                   summary_table, pdf_buffer, pisa_status, pdf, llm_calls,
                   service>>

\* file_path = os.path.join(...); file.save(file_path): the file is opened
\* for writing, which creates or empties it.
SaveOpen(r) ==
    /\ pc[r] = "save"
    /\ file_path' = [file_path EXCEPT
                       ![r] = PathJoin(UPLOAD_FOLDER, request[r].filename)]
    /\ files' = Store(files, file_path'[r], NoLines)
    /\ Ran(r, "save")
    /\ Goto(r, "write")
    /\ UNCHANGED <<request, df, summary, question, report, graphs,
                   summary_table, pdf_buffer, pisa_status, pdf, llm_calls,
                   service>>

\* file.save(file_path), continued: the upload is written and the file closed.
SaveWrite(r) ==
    /\ pc[r] = "write"
    /\ files' = Store(files, file_path[r],
                      Overlay(files[file_path[r]], request[r].content))
    /\ Goto(r, "read")
    /\ UNCHANGED <<request, file_path, df, summary, question, report, graphs,
                   summary_table, pdf_buffer, pisa_status, pdf, trace,
                   llm_calls, service>>

\* df = pd.read_csv(file_path)
ReadCsv(r) ==
    /\ pc[r] = "read"
    /\ Ran(r, "read_csv")
    /\ LET got == read_csv(files[file_path[r]]) IN
       IF got.error # "none"
       THEN Raise(r, got.error) /\ UNCHANGED df
       ELSE Goto(r, "summarize") /\ df' = [df EXCEPT ![r] = got.df]
    /\ UNCHANGED <<request, files, file_path, summary, question, report,
                   graphs, summary_table, pdf_buffer, pisa_status, pdf,
                   llm_calls, service>>

\* summary = summarize_data(df)
Summarize(r) ==
    /\ pc[r] = "summarize"
    /\ Ran(r, "summarize_data")
    /\ \E got \in summarize_data(df[r]) :
          /\ df' = [df EXCEPT ![r] = got.df]
          /\ IF got.error # "none"
             THEN Raise(r, got.error) /\ UNCHANGED summary
             ELSE /\ Goto(r, "question")
                  /\ summary' = [summary EXCEPT ![r] = got.summary]
    /\ UNCHANGED <<request, files, file_path, question, report, graphs,
                   summary_table, pdf_buffer, pisa_status, pdf, llm_calls,
                   service>>

\* question = build_question(summary)
BuildQuestion(r) ==
    /\ pc[r] = "question"
    /\ Ran(r, "build_question")
    /\ question' = [question EXCEPT ![r] = build_question(summary[r])]
    /\ Goto(r, "report")
    /\ UNCHANGED <<request, files, file_path, df, summary, report, graphs,
                   summary_table, pdf_buffer, pisa_status, pdf, llm_calls,
                   service>>

\* Faulty variant: a failed call is tried again.
GenerateReport_Retry(r) ==
    /\ pc[r] = "report"
    /\ Ran(r, "generate_report")
    /\ llm_calls' = Append(llm_calls, [r |-> r, question |-> question[r]])
    /\ IF service.error # "none"
       THEN /\ IF CallsTo(r) >= 1 THEN Raise(r, service.error)
                                    ELSE Goto(r, "report")
            /\ UNCHANGED report
       ELSE /\ Goto(r, "graphs")
            /\ report' = [report EXCEPT ![r] = FormatReport(service.text)]
    /\ UNCHANGED <<request, files, file_path, df, summary, question, graphs,
                   summary_table, pdf_buffer, pisa_status, pdf, service>>

\* report = generate_report(question): chain.invoke sends the prompt; the
\* service answers with text, or the call raises.
GenerateReport(r) ==
    /\ pc[r] = "report"
    /\ Ran(r, "generate_report")
    /\ llm_calls' = Append(llm_calls, [r |-> r, question |-> question[r]])
    /\ IF service.error # "none"
       THEN Raise(r, service.error) /\ UNCHANGED report
       ELSE /\ Goto(r, "graphs")
            /\ report' = [report EXCEPT ![r] = FormatReport(service.text)]
    /\ UNCHANGED <<request, files, file_path, df, summary, question, graphs,
                   summary_table, pdf_buffer, pisa_status, pdf, service>>

\* graphs.append(create_graph(df, 'Time', ...)): the next of the four calls.
CreateGraph(r) ==
    /\ pc[r] = "graphs"
    /\ Ran(r, "create_graph")
    /\ LET call == GraphCalls[Len(graphs[r]) + 1]
           got == create_graph(df[r], call.x_col, call.y_col, call.title,
                               call.explanation)
       IN  IF got.error # "none"
           THEN Raise(r, got.error) /\ UNCHANGED graphs
           ELSE /\ graphs' = [graphs EXCEPT ![r] = Append(@, got.graph)]
                /\ Goto(r, IF Len(graphs'[r]) = Len(GraphCalls)
                           THEN "summary_table" ELSE "graphs")
    /\ UNCHANGED <<request, files, file_path, df, summary, question, report,
                   summary_table, pdf_buffer, pisa_status, pdf, llm_calls,
                   service>>

\* summary_table = generate_summary_table(summary)
SummaryTable(r) ==
    /\ pc[r] = "summary_table"
    /\ Ran(r, "generate_summary_table")
    /\ summary_table' = [summary_table EXCEPT
                           ![r] = generate_summary_table(summary[r])]
    /\ Goto(r, "render")
    /\ UNCHANGED <<request, files, file_path, df, summary, question, report,
                   graphs, pdf_buffer, pisa_status, pdf, llm_calls, service>>

\* return render_template("result.html", ...)
Render(r) ==
    /\ pc[r] = "render"
    /\ Ran(r, "render_template")
    /\ pc' = [pc EXCEPT ![r] = "done"]
    /\ response' = [response EXCEPT
                      ![r] = render_result(report[r], graphs[r], summary_table[r])]
    /\ UNCHANGED <<request, files, file_path, df, summary, question, report,
                   graphs, summary_table, pdf_buffer, pisa_status, pdf, error,
                   llm_calls, service>>

----------------------------------------------------------------------------
(* POST /download *)

\* The bytes a complete rendering of html holds.
PdfBytes(html) == <<"%PDF-", html, "%%EOF">>

Prefixes(bytes) == {SubSeq(bytes, 1, n) : n \in 0..Len(bytes)}

\* A Python object tested by "if x": None is false, a BytesIO is true.
Truthy(x) == x # None

\* report_html = request.form['report_html']
GetForm(r) ==
    /\ pc[r] = "start" /\ request[r].route = "download"
    /\ IF ~request[r].attached
       THEN /\ pc' = [pc EXCEPT ![r] = "done"]
            /\ error' = [error EXCEPT ![r] = "BadRequestKeyError"]
            /\ response' = [response EXCEPT ![r] = BadRequest]
       ELSE Goto(r, "create_pdf")
    /\ UNCHANGED <<request, files, file_path, df, summary, question, report,
                   graphs, summary_table, pdf_buffer, pisa_status, pdf, trace,
                   llm_calls, service>>

\* pdf_buffer = BytesIO(); pisa_status = pisa.CreatePDF(report_html,
\* dest=pdf_buffer): the renderer writes to the buffer and counts its errors;
\* with errors, what it has written is any part of the document.
PisaCreatePDF(r) ==
    /\ pc[r] = "create_pdf"
    /\ Ran(r, "pisa.CreatePDF")
    /\ \E err \in 0..MaxErr :
       \E written \in IF err = 0 THEN {PdfBytes(request[r].report_html)}
                      ELSE Prefixes(PdfBytes(request[r].report_html)) :
          /\ pisa_status' = [pisa_status EXCEPT ![r] = [err |-> err]]
          /\ pdf_buffer' = [pdf_buffer EXCEPT
                              ![r] = [data |-> written, pos |-> Len(written)]]
    /\ Goto(r, "check")
    /\ UNCHANGED <<request, files, file_path, df, summary, question, report,
                   graphs, summary_table, pdf, llm_calls, service>>

\* Faulty variant: the buffer is returned where the renderer left it.
CreatePdfReturn_NoSeek(r) ==
    /\ pc[r] = "check"
    /\ IF pisa_status[r].err # 0
       THEN pdf' = [pdf EXCEPT ![r] = None]
       ELSE pdf' = [pdf EXCEPT ![r] = pdf_buffer[r]]
    /\ UNCHANGED pdf_buffer
    /\ Goto(r, "send")
    /\ UNCHANGED <<request, files, file_path, df, summary, question, report,
                   graphs, summary_table, pisa_status, trace, llm_calls,
                   service>>

\* if pisa_status.err: return None; pdf_buffer.seek(0); return pdf_buffer
CreatePdfReturn(r) ==
    /\ pc[r] = "check"
    /\ IF pisa_status[r].err # 0
       THEN pdf' = [pdf EXCEPT ![r] = None] /\ UNCHANGED pdf_buffer
       ELSE /\ pdf_buffer' = [pdf_buffer EXCEPT ![r].pos = 0]
            /\ pdf' = [pdf EXCEPT ![r] = pdf_buffer'[r]]
    /\ Goto(r, "send")
    /\ UNCHANGED <<request, files, file_path, df, summary, question, report,
                   graphs, summary_table, pisa_status, trace, llm_calls,
                   service>>

\* send_file(pdf, ...): the stream is sent from its position to its end.
send_file(stream, mimetype, as_attachment, download_name) ==
    [status |-> 200, kind |-> "file", mimetype |-> mimetype,
     as_attachment |-> as_attachment, download_name |-> download_name,
     body |-> SubSeq(stream.data, stream.pos + 1, Len(stream.data))]

\* if pdf: return send_file(...); return "Failed to generate PDF", 500
DownloadRespond(r) ==
    /\ pc[r] = "send"
    /\ pc' = [pc EXCEPT ![r] = "done"]
    /\ response' = [response EXCEPT
          ![r] = IF Truthy(pdf[r])
                 THEN send_file(pdf[r], "application/pdf", TRUE,
                                "vehicle_report.pdf")
                 ELSE Plain(500, "Failed to generate PDF")]
    /\ UNCHANGED <<request, files, file_path, df, summary, question, report,
                   graphs, summary_table, pdf_buffer, pisa_status, pdf, error,
                   trace, llm_calls, service>>

----------------------------------------------------------------------------
(* Requests, the service, and the specifications *)

NoRequest ==
    [route |-> "none", attached |-> FALSE, filename |-> "", content |-> NoLines,
     report_html |-> ""]

Upload(filename, content) ==
    [route |-> "generate", attached |-> TRUE, filename |-> filename,
     content |-> content, report_html |-> ""]

\* POST /generate without the datafile field, and with an empty file input.
NoFileRequests ==
    {[route |-> "generate", attached |-> FALSE, filename |-> "",
      content |-> NoLines, report_html |-> ""],
     [route |-> "generate", attached |-> TRUE, filename |-> "",
      content |-> NoLines, report_html |-> ""]}

DownloadRequests ==
    {[route |-> "download", attached |-> a, filename |-> "",
      content |-> NoLines, report_html |-> h] :
        a \in BOOLEAN, h \in {"<html>report</html>", "<html"}}

\* Uploads: a complete table under each header style, and a table that lacks
\* one column; rows of every kind, blank rows included; an empty file.
Contents ==
    {NoLines} \cup
    {Content(style, "none", kinds, it) :
        style \in HeaderStyles, kinds \in SeqsUpTo(0..NKinds, MaxRows),
        it \in BOOLEAN} \cup
    {Content("plain", missing, kinds, it) :
        missing \in Range(FileColumns), kinds \in SeqsUpTo(0..NKinds, MaxRows),
        it \in BOOLEAN}

ReplyChars == {"a", "<", ">", "&"}

Reply(text) == [error |-> "none", text |-> text]

\* The call raises: no key, no network, no quota.
Unavailable == [error |-> "UpstreamError", text |-> <<>>]

InitLocals ==
    /\ files = EmptyDir
    /\ file_path = [r \in Req |-> NoPath]
    /\ df = [r \in Req |-> None]
    /\ summary = [r \in Req |-> None]
    /\ question = [r \in Req |-> None]
    /\ report = [r \in Req |-> None]
    /\ graphs = [r \in Req |-> <<>>]
    /\ summary_table = [r \in Req |-> None]
    /\ pdf_buffer = [r \in Req |-> None]
    /\ pisa_status = [r \in Req |-> None]
    /\ pdf = [r \in Req |-> None]
    /\ response = [r \in Req |-> None]
    /\ error = [r \in Req |-> "none"]
    /\ trace = [r \in Req |-> <<>>]
    /\ llm_calls = <<>>

\* One request arrives, of any kind, with any upload.
Init ==
    /\ \E q \in {Upload("trip.csv", c) : c \in Contents}
                \cup NoFileRequests \cup DownloadRequests :
          request = [r \in Req |-> IF r = 1 THEN q ELSE NoRequest]
    /\ pc = [r \in Req |-> IF r = 1 THEN "start" ELSE "absent"]
    /\ service \in {Reply(<<"a">>), Unavailable}
    /\ InitLocals

Step(r) ==
    \/ GetFile(r)
    \/ SaveOpen(r)
    \/ SaveWrite(r)
    \/ ReadCsv(r)
    \/ Summarize(r)
    \/ BuildQuestion(r)
    \/ GenerateReport(r)
    \/ CreateGraph(r)
    \/ SummaryTable(r)
    \/ Render(r)
    \/ GetForm(r)
    \/ PisaCreatePDF(r)
    \/ CreatePdfReturn(r)
    \/ DownloadRespond(r)

Next == \E r \in Req : Step(r)

Spec == Init /\ [][Next]_vars

\* One upload, and the service answering with any short text.
InitReport ==
    /\ \E q \in {Upload("trip.csv", Content("plain", "none", <<1, 3>>, FALSE))}
                \cup NoFileRequests \cup DownloadRequests :
          request = [r \in Req |-> IF r = 1 THEN q ELSE NoRequest]
    /\ pc = [r \in Req |-> IF r = 1 THEN "start" ELSE "absent"]
    /\ service \in {Reply(t) : t \in SeqsUpTo(ReplyChars, MaxReply)}
                   \cup {Unavailable}
    /\ InitLocals

SpecReport == InitReport /\ [][Next]_vars

\* Every request arrives and the server runs them concurrently.  The first
\* is an upload; each other is an upload of another table under the same
\* filename, an upload under another filename, or a download.
RaceRequests ==
    {Upload("a.csv", Content("plain", "none", <<2, 3>>, FALSE)),
     Upload("b.csv", Content("plain", "none", <<1>>, FALSE)),
     [route |-> "download", attached |-> TRUE, filename |-> "",
      content |-> NoLines, report_html |-> "<html>report</html>"]}

InitRace ==
    /\ \E others \in [Req \ {1} -> RaceRequests] :
          request = [r \in Req |->
                        IF r = 1
                        THEN Upload("a.csv", Content("plain", "none", <<1>>, FALSE))
                        ELSE others[r]]
    /\ pc = [r \in Req |-> "start"]
    /\ service = Reply(<<"a">>)
    /\ InitLocals

SpecRace == InitRace /\ [][Next]_vars

----------------------------------------------------------------------------
(* Reference notions the properties are stated with *)

Ten ==
    {"engine_temp_avg", "rpm_max", "rpm_avg", "speed_max", "maf_avg",
     "throttle_max", "ambient_min", "intake_temp_avg", "pedal_d_range",
     "pedal_e_range"}

Required == Range(SummaryColumns)

HasRun(r, step) == \E i \in DOMAIN trace[r] : trace[r][i] = step

\* The numeric cells of column name of request r's table.
Cells(r, name) ==
    LET i == CHOOSE k \in DOMAIN df[r].columns : Join(df[r].columns[k]) = name
    IN  {df[r].rows[j][i] : j \in DOMAIN df[r].rows} \ {Blank}

RECURSIVE RefSum(_, _)
RefSum(rows, i) ==
    IF rows = <<>> THEN 0
    ELSE (IF Head(rows)[i] = Blank THEN 0 ELSE Head(rows)[i]) + RefSum(Tail(rows), i)

RECURSIVE RefCount(_, _)
RefCount(rows, i) ==
    IF rows = <<>> THEN 0
    ELSE (IF Head(rows)[i] = Blank THEN 0 ELSE 1) + RefCount(Tail(rows), i)

CellSum(r, name) ==
    RefSum(df[r].rows,
           CHOOSE k \in DOMAIN df[r].columns : Join(df[r].columns[k]) = name)

CellCount(r, name) ==
    RefCount(df[r].rows,
             CHOOSE k \in DOMAIN df[r].columns : Join(df[r].columns[k]) = name)

\* A Python number in thousandths.
Milli(x) == IF x.t = "int" THEN 1000 * x.v ELSE x.v

IsNumber(x) == x.t \in {"int", "float"}

IsMaxOf(x, S) == IsNumber(x) /\ Milli(x) \in S /\ \A c \in S : c <= Milli(x)
IsMinOf(x, S) == IsNumber(x) /\ Milli(x) \in S /\ \A c \in S : Milli(x) <= c

\* x is num/den rounded to a hundredth: a hundredth at most half a hundredth
\* away.
IsRounded(x, num, den) ==
    /\ IsNumber(x) /\ Milli(x) % 10 = 0
    /\ 2 * Abs(Milli(x) * den - num) <= 10 * den

\* x is the integer num/den (thousandths) truncates to.
IsTruncated(x, num, den) ==
    /\ x.t = "int"
    /\ Abs(1000 * den * x.v) <= Abs(num)
    /\ Abs(num) < Abs(1000 * den * x.v) + 1000 * den
    /\ (x.v # 0 => (x.v > 0 <=> num > 0))

\* Every required column is there and holds a number.
Summarizable(r) ==
    \A c \in Required : HasColumn(df[r], c) /\ Cells(r, c) # {}

----------------------------------------------------------------------------
(* C1 *)

MeanIsRounded(r, x, name) == IsRounded(x, CellSum(r, name), CellCount(r, name))

\* C1 (as amended): for every table that has all ten required columns, each
\* with at least one numeric cell, summarize_data returns exactly ten
\* metrics: engine_temp_avg, maf_avg and intake_temp_avg are the column means
\* rounded to two decimals, throttle_max and ambient_min the column maximum
\* and minimum rounded to two decimals, rpm_max, rpm_avg and speed_max the
\* RPM maximum, RPM mean and speed maximum truncated to integers, and
\* pedal_d_range, pedal_e_range the unrounded (minimum, maximum) pairs.
ThmC1 ==
    \A r \in Req :
        (HasRun(r, "summarize_data") /\ df[r] # None /\ Summarizable(r)) =>
            /\ summary[r] # None
            /\ DOMAIN summary[r] = Ten
            /\ MeanIsRounded(r, summary[r].engine_temp_avg, Coolant)
            /\ MeanIsRounded(r, summary[r].maf_avg, Maf)
            /\ MeanIsRounded(r, summary[r].intake_temp_avg, Intake)
            /\ \E m \in Cells(r, Throttle) :
                  /\ \A c \in Cells(r, Throttle) : c <= m
                  /\ IsRounded(summary[r].throttle_max, m, 1)
            /\ \E m \in Cells(r, Ambient) :
                  /\ \A c \in Cells(r, Ambient) : m <= c
                  /\ IsRounded(summary[r].ambient_min, m, 1)
            /\ \E m \in Cells(r, Rpm) :
                  /\ \A c \in Cells(r, Rpm) : c <= m
                  /\ IsTruncated(summary[r].rpm_max, m, 1)
            /\ \E m \in Cells(r, Speed) :
                  /\ \A c \in Cells(r, Speed) : c <= m
                  /\ IsTruncated(summary[r].speed_max, m, 1)
            /\ IsTruncated(summary[r].rpm_avg, CellSum(r, Rpm), CellCount(r, Rpm))
            /\ IsMinOf(summary[r].pedal_d_range[1], Cells(r, PedalD))
            /\ IsMaxOf(summary[r].pedal_d_range[2], Cells(r, PedalD))
            /\ IsMinOf(summary[r].pedal_e_range[1], Cells(r, PedalE))
            /\ IsMaxOf(summary[r].pedal_e_range[2], Cells(r, PedalE))

\* A summary of two or more rows whose coolant mean is not a whole number of
\* hundredths, so that rounding changed it, and whose RPM mean has a
\* fraction, so that the cast changed it.
WitC1 ==
    \E r \in Req :
        /\ summary[r] # None /\ Summarizable(r)
        /\ CellCount(r, Coolant) >= 2
        /\ Milli(summary[r].engine_temp_avg) * CellCount(r, Coolant)
              # CellSum(r, Coolant)
        /\ 1000 * summary[r].rpm_avg.v * CellCount(r, Rpm) # CellSum(r, Rpm)

\* C1 (as stated): for a table of numbers with all ten columns and at least
\* one row, the metrics are the means, maxima and minimum themselves, the
\* RPM and speed metrics cast to integers.
CexC1 ==
    \A r \in Req :
        (/\ HasRun(r, "summarize_data") /\ df[r] # None
         /\ Summarizable(r)
         /\ Len(df[r].rows) >= 1) =>
            /\ summary[r] # None
            /\ DOMAIN summary[r] = Ten
            /\ Milli(summary[r].engine_temp_avg) * CellCount(r, Coolant)
                  = CellSum(r, Coolant)
            /\ Milli(summary[r].maf_avg) * CellCount(r, Maf) = CellSum(r, Maf)
            /\ Milli(summary[r].intake_temp_avg) * CellCount(r, Intake)
                  = CellSum(r, Intake)
            /\ IsMaxOf(summary[r].throttle_max, Cells(r, Throttle))
            /\ IsMinOf(summary[r].ambient_min, Cells(r, Ambient))
            /\ IsTruncated(summary[r].rpm_avg, CellSum(r, Rpm), CellCount(r, Rpm))
            /\ IsMinOf(summary[r].pedal_d_range[1], Cells(r, PedalD))
            /\ IsMaxOf(summary[r].pedal_d_range[2], Cells(r, PedalD))
            /\ IsMinOf(summary[r].pedal_e_range[1], Cells(r, PedalE))
            /\ IsMaxOf(summary[r].pedal_e_range[2], Cells(r, PedalE))

----------------------------------------------------------------------------
(* C2 *)

LacksColumn(r) == \E c \in Required : ~HasColumn(df[r], c)

Called(r) == \E i \in DOMAIN llm_calls : llm_calls[i].r = r

\* A column that is read through int() and holds no number.
NoNumberFor(r, c) == HasColumn(df[r], c) /\ Cells(r, c) = {}

\* C2 (as amended): when the table lacks any of the ten required columns
\* after header normalization, summarize_data fails and returns no Summary
\* Record, no default is substituted, the prompt is not built and the
\* text-generation service is not called.  The failure is a lookup error
\* whenever the RPM and speed columns that are present hold a number; when
\* one of them holds none (a table of zero rows, say), the failure is a
\* lookup error or the value error of int(NaN), whichever entry comes first.
ThmC2 ==
    \A r \in Req :
        (HasRun(r, "summarize_data") /\ df[r] # None /\ LacksColumn(r)) =>
            /\ summary[r] = None /\ question[r] = None /\ ~Called(r)
            /\ pc[r] = "done" /\ response[r] = ServerError
            /\ error[r] \in {"KeyError", "ValueError"}
            /\ (~NoNumberFor(r, Rpm) /\ ~NoNumberFor(r, Speed))
                  => error[r] = "KeyError"
            /\ error[r] = "ValueError"
                  => (NoNumberFor(r, Rpm) \/ NoNumberFor(r, Speed))

\* A table with rows and numbers that lacks a column other than the first
\* one read: the lookup error, after the entries before it were computed.
WitC2 ==
    \E r \in Req :
        /\ HasRun(r, "summarize_data") /\ df[r] # None
        /\ ~HasColumn(df[r], Ambient) /\ HasColumn(df[r], Coolant)
        /\ Len(df[r].rows) >= 1 /\ Cells(r, Rpm) # {}
        /\ error[r] = "KeyError" /\ response[r] = ServerError

\* C2 (as stated): a table that lacks a required column always fails with a
\* lookup error.
CexC2 ==
    \A r \in Req :
        (HasRun(r, "summarize_data") /\ df[r] # None /\ LacksColumn(r)) =>
            /\ error[r] = "KeyError"
            /\ summary[r] = None /\ question[r] = None /\ ~Called(r)

----------------------------------------------------------------------------
(* C3 *)

DigitChars == {"0", "1", "2", "3", "4", "5", "6", "7", "8", "9"}

DigitValue(c) == CHOOSE n \in 0..9 : Digit(n) = <<c>>

RECURSIVE NatOf(_)
NatOf(ds) ==
    IF ds = <<>> THEN 0
    ELSE 10 * NatOf(SubSeq(ds, 1, Len(ds) - 1)) + DigitValue(ds[Len(ds)])

Unsigned(text) == IF text # <<>> /\ Head(text) = "-" THEN Tail(text) ELSE text

DotAt(text) ==
    IF \E i \in DOMAIN text : text[i] = "."
    THEN CHOOSE i \in DOMAIN text : text[i] = "." ELSE 0

\* The digits after the decimal point.
FractionOf(text) ==
    IF DotAt(text) = 0 THEN <<>> ELSE SubSeq(text, DotAt(text) + 1, Len(text))

WholeOf(text) ==
    IF DotAt(text) = 0 THEN Unsigned(text)
    ELSE Unsigned(SubSeq(text, 1, DotAt(text) - 1))

IsNumeral(text) ==
    /\ WholeOf(text) # <<>>
    /\ Range(WholeOf(text)) \subseteq DigitChars
    /\ Range(FractionOf(text)) \subseteq DigitChars
    /\ Len(FractionOf(text)) <= 3

\* The number a numeral denotes, in thousandths.
ValueOf(text) ==
    LET f == FractionOf(text)
        frac == CASE Len(f) = 0 -> 0
                  [] Len(f) = 1 -> 100 * NatOf(f)
                  [] Len(f) = 2 -> 10 * NatOf(f)
                  [] OTHER -> NatOf(f)
        mag == 1000 * NatOf(WholeOf(text)) + frac
    IN  IF text # <<>> /\ Head(text) = "-" THEN 0 - mag ELSE mag

\* text shows x as an integer.
ShowsInteger(text, x) ==
    IsNumeral(text) /\ DotAt(text) = 0 /\ ValueOf(text) = Milli(x)

\* text shows x as a number of at most two decimals.
ShowsTwoDecimals(text, x) ==
    IsNumeral(text) /\ Len(FractionOf(text)) <= 2 /\ ValueOf(text) = Milli(x)

AllNumbers(s) ==
    /\ \A k \in Ten \ {"pedal_d_range", "pedal_e_range"} : IsNumber(s[k])
    /\ \A i \in 1..2 : IsNumber(s.pedal_d_range[i]) /\ IsNumber(s.pedal_e_range[i])

\* C3 (as stated): the prompt built from a Summary Record of numbers holds
\* every value of the record: the RPM and speed values as integers, every
\* temperature and percentage, the ends of both pedal ranges included, as a
\* number rounded to two decimal places.
CexC3 ==
    \A r \in Req :
        (question[r] # None /\ AllNumbers(summary[r])) =>
            LET q == question[r].data
                s == summary[r]
            IN  /\ Len(q) = 10
                /\ ShowsTwoDecimals(q[1].values[1], s.engine_temp_avg)
                /\ ShowsInteger(q[2].values[1], s.rpm_max)
                /\ ShowsInteger(q[3].values[1], s.rpm_avg)
                /\ ShowsInteger(q[4].values[1], s.speed_max)
                /\ ShowsTwoDecimals(q[5].values[1], s.maf_avg)
                /\ ShowsTwoDecimals(q[6].values[1], s.throttle_max)
                /\ ShowsTwoDecimals(q[7].values[1], s.ambient_min)
                /\ ShowsTwoDecimals(q[8].values[1], s.intake_temp_avg)
                /\ ShowsTwoDecimals(q[9].values[1], s.pedal_d_range[1])
                /\ ShowsTwoDecimals(q[9].values[2], s.pedal_d_range[2])
                /\ ShowsTwoDecimals(q[10].values[1], s.pedal_e_range[1])
                /\ ShowsTwoDecimals(q[10].values[2], s.pedal_e_range[2])

----------------------------------------------------------------------------
(* C4 *)

IsPage(r) == response[r] # None /\ response[r].kind = "page"

\* C4 (as stated): the report panel of the page holds the text the service
\* returned, escaped.
CexC4 ==
    \A r \in Req :
        IsPage(r) =>
            response[r].report = PanelOpen \o Escape(service.text) \o PanelClose

----------------------------------------------------------------------------
(* C5 *)

Rendered(r) == request[r].route = "download" /\ HasRun(r, "pisa.CreatePDF")

PdfAttachment(html) ==
    [status |-> 200, kind |-> "file", mimetype |-> "application/pdf",
     as_attachment |-> TRUE, download_name |-> "vehicle_report.pdf",
     body |-> <<"%PDF-", html, "%%EOF">>]

\* C5: once the renderer has run, create_pdf returns None exactly when the
\* renderer reports an error, and otherwise the buffer positioned at its
\* start; /download answers with the attachment vehicle_report.pdf, holding
\* the whole document, exactly when the renderer reports no error, and with
\* 500 and the fixed text otherwise, which carries none of the bytes written.
ThmC5 ==
    \A r \in Req :
        Rendered(r) =>
            /\ pc[r] \in {"send", "done"} =>
                  /\ pdf[r] = None <=> pisa_status[r].err # 0
                  /\ pdf[r] # None =>
                        /\ pdf[r].pos = 0
                        /\ pdf[r].data = pdf_buffer[r].data
            /\ pc[r] = "done" =>
                  /\ pisa_status[r].err = 0 =>
                        response[r] = PdfAttachment(request[r].report_html)
                  /\ pisa_status[r].err # 0 =>
                        response[r] = [status |-> 500, kind |-> "text",
                                       body |-> "Failed to generate PDF"]

\* The renderer reported an error after writing part of the document, and
\* the request was answered.
WitC5 ==
    \E r \in Req :
        /\ Rendered(r) /\ pc[r] = "done"
        /\ pisa_status[r].err # 0 /\ pdf_buffer[r].data # <<>>
        /\ response[r].status = 500

----------------------------------------------------------------------------
(* C6 *)

NoFile(r) ==
    /\ request[r].route = "generate"
    /\ (~request[r].attached \/ request[r].filename = "")

\* C6: POST /generate with no file attached does nothing but answer 400:
\* nothing is written to the upload directory, no table is read and the
\* text-generation service is not called.
ThmC6 ==
    \A r \in Req :
        NoFile(r) =>
            /\ pc[r] \in {"start", "done"}
            /\ pc[r] = "done" => response[r].status = 400
            /\ files = EmptyDir /\ file_path[r] = NoPath
            /\ df[r] = None /\ trace[r] = <<>>
            /\ llm_calls = <<>>

\* The form came with an empty file input and was answered.
WitC6 ==
    \E r \in Req :
        /\ NoFile(r) /\ request[r].attached /\ pc[r] = "done"
        /\ response[r] = [status |-> 400, kind |-> "text",
                          body |-> "No file uploaded"]

----------------------------------------------------------------------------
(* C7 *)

\* The four signals, in order, with the title each chart carries.
Charts ==
    <<[signal |-> "Engine Coolant Temperature [C]",
       title |-> "Engine Coolant Temperature Over Time",
       explanation |-> "Monitors engine warming."],
      [signal |-> "Engine RPM [RPM]",
       title |-> "Engine RPM Over Time",
       explanation |-> "Shows engine revolutions per minute during operation."],
      [signal |-> "Vehicle Speed Sensor [km/h]",
       title |-> "Vehicle Speed Over Time",
       explanation |-> "Helps assess speed behavior."],
      [signal |-> "Accelerator Pedal Position D [%]",
       title |-> "Pedal D Position Over Time",
       explanation |-> "Reflects throttle input from driver."]>>

\* The cells of column name of the file request r uploaded, one per data
\* line: a complete file holds its columns in the order of FileColumns.
Uploaded(r, name) ==
    [j \in DOMAIN request[r].content.rows |->
        request[r].content.rows[j][Index(FileColumns, name)]]

\* C7: a /generate request that completes carries exactly four charts, in
\* the order coolant temperature, engine RPM, vehicle speed, pedal D; each
\* plots the uploaded cells of its own signal against those of the Time
\* column, is labelled and named with the signal's column name, and has its
\* own title and explanation.
ThmC7 ==
    \A r \in Req :
        IsPage(r) =>
            /\ Len(response[r].graphs) = 4
            /\ \A i \in 1..4 :
                  LET g == response[r].graphs[i] IN
                  /\ g.title = Charts[i].title
                  /\ g.explanation = Charts[i].explanation
                  /\ g.yaxis_title = Charts[i].signal
                  /\ g.name = Charts[i].signal
                  /\ g.y = Uploaded(r, Charts[i].signal)
                  /\ g.x = Uploaded(r, "Time")

\* A completed request whose table has two rows that differ.
WitC7 ==
    \E r \in Req :
        /\ IsPage(r) /\ Len(response[r].graphs) = 4
        /\ Len(request[r].content.rows) = 2
        /\ response[r].graphs[2].y[1] # response[r].graphs[2].y[2]
        /\ response[r].graphs[2].y # response[r].graphs[3].y

----------------------------------------------------------------------------
(* C8 *)

Saving(r) == file_path[r] # NoPath

\* C8: uploads with the same client-supplied filename share one path in the
\* upload directory (and only those do), and a saved file is never removed,
\* whatever became of the request.
ThmC8 ==
    \A r \in Req :
        Saving(r) =>
            /\ file_path[r] \in DOMAIN files
            /\ \A q \in Req :
                  Saving(q) =>
                      (request[q].filename = request[r].filename
                          <=> file_path[q] = file_path[r])

\* The race: two uploads of different content under one filename, and a
\* request that has read, summarized and reported on the table of the other
\* upload, whole, while its own upload lies in no file.
WitC8 ==
    \E r, q \in Req :
        /\ r # q /\ Saving(r) /\ Saving(q)
        /\ request[r].filename = request[q].filename
        /\ request[r].content # request[q].content
        /\ IsPage(r)
        /\ df[r].rows = request[q].content.rows
        /\ response[r].graphs[1].y = Uploaded(q, Coolant)
        /\ files[file_path[r]] = request[q].content

----------------------------------------------------------------------------
(* C9 *)

\* The steps of /generate, in order.
StepOrder ==
    <<"save", "read_csv", "summarize_data", "build_question",
      "generate_report", "create_graph", "create_graph", "create_graph",
      "create_graph", "generate_summary_table", "render_template">>

\* What step i leaves when it succeeds.
Output(r, i) ==
    CASE i = 1 -> file_path[r] # NoPath /\ pc[r] # "write"
      [] i = 2 -> df[r] # None
      [] i = 3 -> summary[r] # None
      [] i = 4 -> question[r] # None
      [] i = 5 -> report[r] # None
      [] i \in 6..9 -> Len(graphs[r]) >= i - 5
      [] i = 10 -> summary_table[r] # None
      [] i = 11 -> IsPage(r)

\* C9: the steps of a /generate request run in the fixed order, each at most
\* once and only after every earlier one succeeded; the service is called at
\* most once; the first step to fail ends the request, with no later step
\* run and the framework's error response instead of a page.
ThmC9 ==
    \A r \in Req :
        request[r].route = "generate" =>
            /\ Len(trace[r]) <= Len(StepOrder)
            /\ trace[r] = SubSeq(StepOrder, 1, Len(trace[r]))
            /\ \A i \in DOMAIN StepOrder :
                  /\ Output(r, i) => i <= Len(trace[r])
                  /\ (i < Len(trace[r])) => Output(r, i)
                  /\ (i = Len(trace[r]) /\ error[r] # "none") => ~Output(r, i)
            /\ CallsTo(r) = (IF Len(trace[r]) >= 5 THEN 1 ELSE 0)
            /\ error[r] # "none" =>
                  /\ pc[r] = "done"
                  /\ response[r] \in {ServerError, BadRequest}
            /\ (pc[r] = "done" /\ error[r] = "none" /\ ~NoFile(r)) =>
                  Len(trace[r]) = Len(StepOrder) /\ IsPage(r)

\* The service call failed: five steps ran, none after it, and no page.
WitC9 ==
    \E r \in Req :
        /\ error[r] = "UpstreamError" /\ Len(trace[r]) = 5
        /\ pc[r] = "done" /\ response[r] = ServerError /\ graphs[r] = <<>>

----------------------------------------------------------------------------
(* C10 *)

\* A header that normalization leaves alone: no non-ASCII character, no
\* whitespace at either end.
IsNormal(h) ==
    /\ \A i \in DOMAIN h : h[i] \notin NonAscii
    /\ h # <<>> => (h[1] \notin Whitespace /\ h[Len(h)] \notin Whitespace)

\* The upload's headers are the expected names once normalized, and not
\* before: what each holds besides the name is non-ASCII characters and
\* whitespace around it.
ExpectedOnceNormalized(r) ==
    LET h == request[r].content.header IN
    /\ Len(h) = Len(FileColumns)
    /\ \E i \in DOMAIN h : Join(h[i]) # FileColumns[i]
    /\ \A i \in DOMAIN h :
          FileColumns[i]
              = Join(SelectSeq(h[i], LAMBDA c : c \notin NonAscii \cup Whitespace))

\* C10: summarize_data normalizes the headers of the request's table in
\* place, so from then on, and for every chart, the table carries normalized
\* headers; for an upload whose headers are the expected names only once
\* normalized no column lookup fails, of the summary or of the four charts,
\* Time included; and normalizing the normalized headers changes nothing.
ThmC10 ==
    \A r \in Req :
        /\ (HasRun(r, "summarize_data") /\ df[r] # None) =>
              /\ \A i \in DOMAIN df[r].columns : IsNormal(df[r].columns[i])
              /\ NormalizeColumns(df[r].columns) = df[r].columns
        /\ (request[r].route = "generate" /\ ExpectedOnceNormalized(r)) =>
              /\ error[r] \notin {"KeyError"}
              /\ HasRun(r, "summarize_data") =>
                    \A c \in Range(FileColumns) : HasColumn(df[r], c)
              /\ (pc[r] = "done" /\ error[r] = "none") =>
                    IsPage(r) /\ Len(response[r].graphs) = 4

\* A completed request whose upload wrote the Time header with a byte-order
\* mark and a space before it.
WitC10 ==
    \E r \in Req :
        /\ IsPage(r) /\ ExpectedOnceNormalized(r)
        /\ request[r].content.header[1] = <<BOM, " ", "Time">>
        /\ Len(response[r].graphs) = 4

====
